---- MODULE Spec2Model ----
(***************************************************************************)
(* A model of the three programs of the repository:                        *)
(*   rdf.py          one-shot batch poller writing JSON/CSV files          *)
(*   rdf_sql.py      long-running collector writing to MySQL               *)
(*   uniVmax_rdf.py  VMAXClient, the REST client with pagination           *)
(* The variable prog says which program a behaviour runs.  The poll        *)
(* targets, the worker pool and the main thread's position are shared by   *)
(* the models of rdf.py and rdf_sql.py, which use the same names.          *)
(*                                                                         *)
(* BATCH_SIZE and MAX_WORKERS are module-level configuration values of     *)
(* the programs (20 and 5 in the repository).  They are state here, drawn  *)
(* in Init from 1..MaxBatchSize and 1..MaxWorkers, so that an inventory of *)
(* a few targets already fills several batches and exceeds the pool.       *)
(***************************************************************************)
EXTENDS Integers, Sequences, FiniteSets, TLC

\* ---------------------------------------------------------------- bounds
MaxTargets == 3
MaxSqlTargets == 2
MaxBatchSize == 3
MaxWorkers == 2
MaxPairings == 2
MaxPasses == 2
MaxPages == 3
MaxPageItems == 2

\* --------------------------------------------------------------- constants
COLLECTION_INTERVAL == 3600

VARIABLES
  prog,            \* which program runs: "rdf", "rdf_sql" or "uniVmax_rdf"
  pc,              \* position of the main thread
  BATCH_SIZE,      \* rdf.py: configured batch size
  MAX_WORKERS,     \* rdf.py, rdf_sql.py: configured size of the thread pool
  storage_groups,  \* the inventory: sequence of target names
  fstatus,         \* per inventory position: "idle", "queued", "running", "done"
  fresult,         \* per inventory position: what the worker returned
  fresp,           \* per inventory position: the answer the worker's GET received
  batches,         \* rdf.py main: the list of batches
  i,               \* rdf.py main: 1-based number of the current batch
  results,         \* rdf.py process_batch: results of the current batch
  json_files,      \* rdf.py: the JSON files written, one per batch
  csv_files,       \* rdf.py: the CSV files written (data rows), one per batch
  sleeps,          \* rdf.py: batch numbers after which time.sleep(10) ran
  inventory_gets,  \* number of inventory requests sent
  passes,          \* rdf_sql.py main: number of passes started
  processed,       \* rdf_sql.py process_storage_groups: the counter
  fi,              \* rdf_sql.py: 1-based position of the future being consumed
  ri,              \* rdf_sql.py: 1-based position in rdfGroupInfo of the next insert
  db_open,         \* rdf_sql.py: the connection of the pass is open
  db_pending,      \* rdf_sql.py: rows inserted in the open transaction
  db_committed,    \* rdf_sql.py: rows made durable through the connection of the pass
  db_users,        \* rdf_sql.py: the threads that have used a connection
  commits,         \* rdf_sql.py: pass numbers whose conn.commit() returned
  processing_time, \* rdf_sql.py main: measured duration of the last pass
  sleep_time,      \* rdf_sql.py main: the argument of time.sleep
  inv_resp,        \* the answer the inventory request received
  pages,           \* uniVmax_rdf.py: the server's pages of the listed resource
  method,          \* uniVmax_rdf.py: the VMAXClient method being called
  params,          \* uniVmax_rdf.py _get_paginated: params['pageKey']
  page_results,    \* uniVmax_rdf.py _get_paginated: the list `results`
  requests,        \* uniVmax_rdf.py: the page keys of the GETs sent, in order
  answers,         \* uniVmax_rdf.py: the answers received, in order
  retval,          \* uniVmax_rdf.py: what the method returned
  raised,          \* uniVmax_rdf.py: the exception the method raised
  log,             \* rdf.py: the lines printed; rdf_sql.py: those of the pass
  gets,            \* per inventory position: GETs sent for it in the batch or pass
  failed_prev,     \* rdf_sql.py: the first target whose fetch failed in the pass before
  out_of_order     \* a task of the batch or pass finished before an earlier one

rdfVars == <<BATCH_SIZE, batches, i, results, json_files, csv_files, sleeps>>
poolVars == <<MAX_WORKERS, storage_groups, fstatus, fresult, fresp>>
sqlVars == <<passes, processed, fi, ri, db_open, db_pending, db_committed,
             db_users, commits, processing_time, sleep_time>>
clientVars == <<pages, method, params, page_results, requests, answers, retval, raised>>
obsVars == <<log, gets, failed_prev, out_of_order>>
vars == <<prog, pc, inventory_gets, inv_resp, poolVars, rdfVars, sqlVars, clientVars,
          obsVars>>

\* ------------------------------------------------------------ environment
Min(a, b) == IF a < b THEN a ELSE b
Max(a, b) == IF a > b THEN a ELSE b

\* Target names "SG1", "SG2", ...
TargetName(k) == "SG" \o ToString(k)
Inventory(n) == [k \in 1..n |-> TargetName(k)]

HttpStatuses == {200, 404}

\* What the array can answer to the GET of one storage group's RDF status.
\* exc: the request raised (timeout, connection reset); otherwise status is
\* the HTTP status and body the shape of the body: "invalid" (not JSON),
\* "list" (JSON, but not a mapping) or "dict" (a mapping); info is the
\* number of mappings at the head of its rdfGroupInfo list, -1 when the key
\* is absent; malformed says that what follows them cannot be iterated as a
\* mapping (the value is null, or the next entry is no mapping).
Responses ==
  {[exc |-> TRUE, status |-> 0, body |-> "invalid", info |-> -1, malformed |-> FALSE]}
  \cup [exc : {FALSE}, status : HttpStatuses \ {200}, body : {"invalid"}, info : {-1},
        malformed : {FALSE}]
  \cup [exc : {FALSE}, status : {200}, body : {"invalid", "list"}, info : {-1},
        malformed : {FALSE}]
  \cup [exc : {FALSE}, status : {200}, body : {"dict"}, info : -1..MaxPairings,
        malformed : {FALSE}]
  \cup [exc : {FALSE}, status : {200}, body : {"dict"}, info : 0..(MaxPairings - 1),
        malformed : {TRUE}]

\* What the array can answer to the inventory GET, with status 200 or 401.
\* names is the list under 'name', body is "invalid" (not JSON) or "dict",
\* hasName whether the mapping has that key.
InventoryResponses(maxn) ==
  {[exc |-> TRUE, status |-> 0, body |-> "invalid", hasName |-> FALSE, names |-> <<>>]}
  \cup [exc : {FALSE}, status : {200, 401}, body : {"invalid", "dict"},
        hasName : {FALSE}, names : {<<>>}]
  \cup {[exc |-> FALSE, status |-> st, body |-> "dict", hasName |-> TRUE,
         names |-> Inventory(n)] : st \in {200, 401}, n \in 0..maxn}

NoInventoryResponse ==
  [exc |-> FALSE, status |-> 0, body |-> "none", hasName |-> FALSE, names |-> <<>>]

NoResponse ==
  [exc |-> FALSE, status |-> 0, body |-> "none", info |-> -1, malformed |-> FALSE]

NoResult == [sg |-> "", type |-> "none", info |-> -1, malformed |-> FALSE, text |-> ""]

\* A line printed to the console: the message, the storage group it names,
\* the text and the number it shows
Line(msg, sg_name, detail, n) == [msg |-> msg, sg |-> sg_name, detail |-> detail, n |-> n]

\* ------------------------------------------------------- python built-ins
\* range(start, stop, step) for step > 0
PyRange(start, stop, step) ==
  [k \in 1..(IF stop > start THEN (stop - start + step - 1) \div step ELSE 0)
     |-> start + (k - 1) * step]

\* s[a:b] for 0 <= a, 0 <= b: 0-based, end exclusive, clamped to len(s)
PySlice(s, a, b) ==
  LET hi == Min(b, Len(s))
  IN  IF a >= hi THEN <<>> ELSE [k \in 1..(hi - a) |-> s[a + k]]

\* ------------------------------------------------------------- rdf.py
\* mutant of get_rdf_status: the except clause returns the bare message,
\* not keyed by the storage group
get_rdf_status_unkeyed(sg_name, r) ==
  IF r.exc
    THEN [sg |-> "", type |-> "str", info |-> -1, malformed |-> FALSE, text |-> "Exception: timeout"]
  ELSE IF r.status = 200
    THEN IF r.body = "invalid"
           THEN [sg |-> "", type |-> "str", info |-> -1, malformed |-> FALSE, text |-> "Exception: json"]
           ELSE [sg |-> sg_name, type |-> r.body, info |-> r.info,
                 malformed |-> r.malformed, text |-> ""]
  ELSE [sg |-> sg_name, type |-> "str", info |-> -1, malformed |-> FALSE,
        text |-> "Error: " \o ToString(r.status)]

\* get_rdf_status(sg_name), given the answer of session.get
get_rdf_status(sg_name, r) ==
  IF r.exc
    THEN [sg |-> sg_name, type |-> "str", info |-> -1, malformed |-> FALSE, text |-> "Exception: timeout"]
  ELSE IF r.status = 200
    THEN IF r.body = "invalid"  \* response.json() raises inside the try
           THEN [sg |-> sg_name, type |-> "str", info |-> -1, malformed |-> FALSE, text |-> "Exception: json"]
           ELSE [sg |-> sg_name, type |-> r.body, info |-> r.info,
                 malformed |-> r.malformed, text |-> ""]
  ELSE [sg |-> sg_name, type |-> "str", info |-> -1, malformed |-> FALSE,
        text |-> "Error: " \o ToString(r.status)]

\* mutant of Attempts: the GET is sent again after a failed answer
AttemptsWithRetry(r) == IF r.exc \/ r.status # 200 THEN 2 ELSE 1

\* get_rdf_status sends one session.get, whatever the answer (rdf.py line
\* 24, rdf_sql.py line 62)
Attempts(r) == 1

\* mutant of SplitBatches: only the full batches, range(0, len - size + 1, size)
SplitBatchesFullOnly(sgs, size) ==
  LET starts == PyRange(0, Len(sgs) - size + 1, size)
  IN  [b \in 1..Len(starts) |-> PySlice(sgs, starts[b], starts[b] + size)]

\* batches = [storage_groups[i:i + BATCH_SIZE] for i in range(0, len(storage_groups), BATCH_SIZE)]
SplitBatches(sgs, size) ==
  LET starts == PyRange(0, Len(sgs), size)
  IN  [b \in 1..Len(starts) |-> PySlice(sgs, starts[b], starts[b] + size)]

\* Inventory position of the j-th target of batch b (both 1-based)
BatchPos(b, j) == (b - 1) * BATCH_SIZE + j
BatchPositions(b) ==
  IF b \in 1..Len(batches) THEN {BatchPos(b, j) : j \in 1..Len(batches[b])} ELSE {}

InFlight == {p \in DOMAIN fstatus : fstatus[p] = "running"}

\* mutant of WorkerAvailable: a thread per task, whatever max_workers
WorkerAlwaysAvailable == TRUE

\* ThreadPoolExecutor(max_workers=MAX_WORKERS): a queued task starts only
\* while fewer than max_workers tasks run
WorkerAvailable == Cardinality(InFlight) < MAX_WORKERS

\* The work queue is FIFO: the queued task submitted first starts first
NextQueued(p) ==
  /\ fstatus[p] = "queued"
  /\ \A q \in DOMAIN fstatus : fstatus[q] = "queued" => p <= q

\* task p finishes while a task submitted before it has not finished
FinishesEarly(p) == \E q \in DOMAIN fstatus : q < p /\ fstatus[q] \in {"queued", "running"}

\* leaving the with-block and list(executor.map(...)) wait for every task
AllCollected(ps) == \A p \in ps : fstatus[p] = "done"

\* The data rows process_batch writes to the CSV file: one per rdfGroupInfo
\* entry of every result whose data is a mapping; data.get('rdfGroupInfo', [])
CsvRowsOf(res) ==
  IF res.type = "dict" /\ res.info > 0
    THEN [k \in 1..res.info |-> <<res.sg, k>>]
    ELSE <<>>

RECURSIVE CsvRows(_)
CsvRows(rs) ==
  IF rs = <<>> THEN <<>> ELSE CsvRowsOf(Head(rs)) \o CsvRows(Tail(rs))

\* main, lines 67-73: the inventory request and the batch split
RdfGetInventory ==
  /\ prog = "rdf" /\ pc = "main"
  /\ \E r \in InventoryResponses(MaxTargets) :
       /\ inv_resp' = r
       /\ IF r.exc \/ ~r.hasName
            THEN \* session.get raises, or response.json()['name'] raises
                 /\ pc' = "crashed"
                 /\ UNCHANGED <<storage_groups, batches, fstatus, fresult, fresp, i>>
            ELSE /\ storage_groups' = r.names
                 /\ batches' = SplitBatches(r.names, BATCH_SIZE)
                 /\ fstatus' = [p \in 1..Len(r.names) |-> "idle"]
                 /\ fresult' = [p \in 1..Len(r.names) |-> NoResult]
                 /\ fresp' = [p \in 1..Len(r.names) |-> NoResponse]
                 /\ i' = 1
                 /\ pc' = IF Len(batches') >= 1 THEN "batch" ELSE "done"
  /\ inventory_gets' = inventory_gets + 1
  /\ UNCHANGED <<prog, BATCH_SIZE, MAX_WORKERS, results, json_files, csv_files, sleeps,
                 sqlVars, clientVars>>
  /\ gets' = [p \in 1..Len(storage_groups') |-> 0]
  /\ UNCHANGED <<log, failed_prev, out_of_order>>

\* main line 77 and process_batch lines 35-41: executor.map submits the
\* whole batch to the pool
RdfSubmitBatch ==
  /\ prog = "rdf" /\ pc = "batch"
  /\ fstatus' = [p \in DOMAIN fstatus |->
                   IF p \in BatchPositions(i) THEN "queued" ELSE fstatus[p]]
  /\ pc' = "fetching"
  /\ UNCHANGED <<prog, MAX_WORKERS, storage_groups, fresult, fresp, rdfVars,
                 inventory_gets, sqlVars, inv_resp, clientVars>>
  /\ log' = Append(log, Line("Processing batch", "", ToString(i), Len(batches[i])))
  /\ out_of_order' = FALSE
  /\ UNCHANGED <<gets, failed_prev>>

\* a pool thread takes the next task from the queue
RdfWorkerStart(p) ==
  /\ prog = "rdf"
  /\ NextQueued(p)
  /\ WorkerAvailable
  /\ fstatus' = [fstatus EXCEPT ![p] = "running"]
  /\ UNCHANGED <<prog, pc, MAX_WORKERS, storage_groups, fresult, fresp, rdfVars,
                 inventory_gets, sqlVars, inv_resp, clientVars>>
  /\ UNCHANGED obsVars

\* a pool thread runs get_rdf_status to its return, lines 22-31
RdfWorkerFinish(p) ==
  /\ prog = "rdf"
  /\ fstatus[p] = "running"
  /\ \E r \in Responses :
       /\ fresp' = [fresp EXCEPT ![p] = r]
       /\ fresult' = [fresult EXCEPT ![p] = get_rdf_status(storage_groups[p], r)]
  /\ fstatus' = [fstatus EXCEPT ![p] = "done"]
  /\ UNCHANGED <<prog, pc, MAX_WORKERS, storage_groups, rdfVars, inventory_gets,
                 sqlVars, inv_resp, clientVars>>
  /\ gets' = [gets EXCEPT ![p] = @ + Attempts(fresp'[p])]
  /\ out_of_order' = (out_of_order \/ FinishesEarly(p))
  /\ UNCHANGED <<log, failed_prev>>

\* mutant of MapResults: the results in the reverse of the input order
MapResultsReversed(b) ==
  [j \in 1..Len(batches[b]) |-> fresult[BatchPos(b, Len(batches[b]) + 1 - j)]]

\* list(executor.map(get_rdf_status, batch)): the results in input order
MapResults(b) == [j \in 1..Len(batches[b]) |-> fresult[BatchPos(b, j)]]

\* process_batch line 41: results = list(executor.map(...)), in input order
RdfCollect ==
  /\ prog = "rdf" /\ pc = "fetching"
  /\ AllCollected(BatchPositions(i))
  /\ results' = MapResults(i)
  /\ pc' = "write_json"
  /\ UNCHANGED <<prog, poolVars, BATCH_SIZE, batches, i, json_files, csv_files, sleeps,
                 inventory_gets, sqlVars, inv_resp, clientVars>>
  /\ UNCHANGED obsVars

\* process_batch lines 44-45
RdfWriteJson ==
  /\ prog = "rdf" /\ pc = "write_json"
  /\ json_files' = Append(json_files, results)
  /\ pc' = "write_csv"
  /\ UNCHANGED <<prog, poolVars, BATCH_SIZE, batches, i, results, csv_files, sleeps,
                 inventory_gets, sqlVars, inv_resp, clientVars>>
  /\ UNCHANGED obsVars

\* mutant of DelayDue: i <= len(batches), the delay follows the last batch too
DelayDueAlways(n, nbatches) == n <= nbatches

\* main line 82: the delay is due after every batch but the last
DelayDue(n, nbatches) == n < nbatches

\* the position in rs of the first result whose rdfGroupInfo cannot be
\* iterated as mappings, 0 when there is none
FirstMalformed(rs) ==
  LET bad == {j \in DOMAIN rs : rs[j].type = "dict" /\ rs[j].malformed}
  IN  IF bad = {} THEN 0 ELSE CHOOSE j \in bad : \A k \in bad : j <= k

\* process_batch lines 48-64 and main lines 78-82.  The loop of lines 55-62
\* raises at a malformed rdfGroupInfo (TypeError at line 55, AttributeError
\* at line 58): the file keeps the rows written so far, process_batch does
\* not return and main, which has no handler, ends.
RdfWriteCsv ==
  /\ prog = "rdf" /\ pc = "write_csv"
  /\ IF FirstMalformed(results) # 0
       THEN /\ csv_files' = Append(csv_files,
                                   CsvRows(SubSeq(results, 1, FirstMalformed(results))))
            /\ pc' = "crashed" /\ i' = i
            /\ log' = log
       ELSE /\ csv_files' = Append(csv_files, CsvRows(results))
            /\ log' = Append(log, Line("Completed batch", "", ToString(i), Len(results)))
            /\ IF DelayDue(i, Len(batches))
                 THEN pc' = "delay" /\ i' = i
                 ELSE IF i < Len(batches)
                        THEN pc' = "batch" /\ i' = i + 1
                        ELSE pc' = "done" /\ i' = i
  /\ UNCHANGED <<prog, poolVars, BATCH_SIZE, batches, results, json_files, sleeps,
                 inventory_gets, sqlVars, inv_resp, clientVars>>
  /\ UNCHANGED <<gets, failed_prev, out_of_order>>

\* main line 83, then the next iteration of the for loop
RdfDelay ==
  /\ prog = "rdf" /\ pc = "delay"
  /\ sleeps' = Append(sleeps, i)
  /\ IF i < Len(batches)
       THEN pc' = "batch" /\ i' = i + 1
       ELSE pc' = "done" /\ i' = i
  /\ UNCHANGED <<prog, poolVars, BATCH_SIZE, batches, results, json_files, csv_files,
                 inventory_gets, sqlVars, inv_resp, clientVars>>
  /\ UNCHANGED obsVars

NextRdf ==
  \/ RdfGetInventory
  \/ RdfSubmitBatch
  \/ \E p \in DOMAIN fstatus : RdfWorkerStart(p)
  \/ \E p \in DOMAIN fstatus : RdfWorkerFinish(p)
  \/ RdfCollect
  \/ RdfWriteJson
  \/ RdfWriteCsv
  \/ RdfDelay

\* ------------------------------------------------------------ rdf_sql.py
\* get_rdf_status(session, sg_name), given the answer of session.get
sql_get_rdf_status(sg_name, r) ==
  IF r.exc
    THEN [sg |-> "", type |-> "dict", info |-> -1, malformed |-> FALSE, text |-> "timeout"]
  ELSE IF r.status = 200
    THEN IF r.body = "invalid"  \* response.json() raises inside the try
           THEN [sg |-> "", type |-> "dict", info |-> -1, malformed |-> FALSE, text |-> "json"]
           ELSE [sg |-> "", type |-> r.body, info |-> r.info,
                 malformed |-> r.malformed, text |-> ""]
  ELSE [sg |-> "", type |-> "dict", info |-> -1, malformed |-> FALSE, text |-> "HTTP " \o ToString(r.status)]

\* main line 112: the inventory answer is refused
InventoryFailed(r) == r.status # 200

\* main lines 107-117: the inventory request
SqlGetInventory ==
  /\ prog = "rdf_sql" /\ pc = "main"
  /\ inventory_gets' = inventory_gets + 1
  /\ \E r \in InventoryResponses(MaxSqlTargets) :
       /\ inv_resp' = r
       /\ IF r.exc   \* session.get raises
            THEN pc' = "crashed" /\ UNCHANGED <<storage_groups, fstatus, fresult, fresp>>
          ELSE IF InventoryFailed(r)   \* lines 112-114: print and return
            THEN pc' = "exited" /\ UNCHANGED <<storage_groups, fstatus, fresult, fresp>>
          ELSE IF r.body = "invalid"   \* response.json() raises
            THEN pc' = "crashed" /\ UNCHANGED <<storage_groups, fstatus, fresult, fresp>>
          ELSE /\ storage_groups' = (IF r.hasName THEN r.names ELSE <<>>)
               /\ fstatus' = [p \in 1..Len(storage_groups') |-> "idle"]
               /\ fresult' = [p \in 1..Len(storage_groups') |-> NoResult]
               /\ fresp' = [p \in 1..Len(storage_groups') |-> NoResponse]
               /\ pc' = "loop"
  /\ UNCHANGED <<prog, MAX_WORKERS, rdfVars, sqlVars, clientVars>>
  /\ gets' = [p \in 1..Len(storage_groups') |-> 0]
  /\ log' = IF pc' = "exited"
              THEN <<Line("Failed to get storage groups", "", "HTTP", inv_resp'.status)>>
            ELSE IF pc' = "loop"
              THEN <<Line("Found", "", "", Len(storage_groups'))>>
            ELSE log
  /\ UNCHANGED <<failed_prev, out_of_order>>

\* main lines 119-123 and process_storage_groups lines 73-77.  start_time
\* is taken anew: the measurements of the pass before are dead values, which
\* line 127 and 128 assign before anything reads them.
SqlStartPass ==
  /\ prog = "rdf_sql" /\ pc = "loop"
  /\ passes < MaxPasses
  /\ passes' = passes + 1
  /\ processing_time' = 0
  /\ sleep_time' = 0
  /\ pc' = "connect"
  /\ UNCHANGED <<prog, inventory_gets, poolVars, rdfVars, processed, fi, ri, db_open,
                 db_pending, db_committed, db_users, commits, inv_resp, clientVars>>
  /\ log' = <<Line("Starting collection", "", "", 0)>>
  /\ UNCHANGED <<gets, failed_prev, out_of_order>>

\* process_storage_groups lines 79-85: get_db_connection() returns or
\* raises; then every storage group is submitted to the pool.  conn is a new
\* connection: nothing is pending or committed through it yet.  The program
\* only ever inserts: the rows committed through the connections of earlier
\* passes stay in the table, are never read again, and are not kept here.
SqlConnect ==
  /\ prog = "rdf_sql" /\ pc = "connect"
  /\ db_users' = db_users \cup {"main"}
  /\ \E ok \in BOOLEAN :
       IF ok
         THEN /\ db_open' = TRUE
              /\ db_pending' = {}
              /\ db_committed' = {}
              /\ processed' = 0
              /\ fi' = 1
              /\ ri' = 0
              /\ fstatus' = [p \in DOMAIN fstatus |-> "queued"]
              /\ fresult' = [p \in DOMAIN fresult |-> NoResult]
              /\ fresp' = [p \in DOMAIN fresp |-> NoResponse]
              /\ pc' = "consume"
         ELSE /\ pc' = "crashed"
              /\ UNCHANGED <<db_open, db_pending, db_committed, processed, fi, ri, fstatus,
                             fresult, fresp>>
  /\ UNCHANGED <<prog, inventory_gets, MAX_WORKERS, storage_groups, rdfVars, passes,
                 commits, processing_time, sleep_time, inv_resp, clientVars>>
  /\ gets' = [p \in DOMAIN gets |-> 0]
  /\ out_of_order' = FALSE
  /\ UNCHANGED <<log, failed_prev>>

\* a pool thread takes the next task from the queue
SqlWorkerStart(p) ==
  /\ prog = "rdf_sql"
  /\ NextQueued(p)
  /\ WorkerAvailable
  /\ fstatus' = [fstatus EXCEPT ![p] = "running"]
  /\ UNCHANGED <<prog, pc, MAX_WORKERS, storage_groups, fresult, fresp, rdfVars,
                 inventory_gets, sqlVars, inv_resp, clientVars>>
  /\ UNCHANGED obsVars

\* a pool thread runs get_rdf_status to its return, lines 60-69
SqlWorkerFinish(p) ==
  /\ prog = "rdf_sql"
  /\ fstatus[p] = "running"
  /\ \E r \in Responses :
       /\ fresp' = [fresp EXCEPT ![p] = r]
       /\ fresult' = [fresult EXCEPT ![p] = sql_get_rdf_status(storage_groups[p], r)]
  /\ fstatus' = [fstatus EXCEPT ![p] = "done"]
  /\ UNCHANGED <<prog, pc, MAX_WORKERS, storage_groups, rdfVars, inventory_gets,
                 sqlVars, inv_resp, clientVars>>
  /\ gets' = [gets EXCEPT ![p] = @ + Attempts(fresp'[p])]
  /\ out_of_order' = (out_of_order \/ FinishesEarly(p))
  /\ UNCHANGED <<log, failed_prev>>

\* mutant of ResultReady: the result is taken without waiting for the task
ResultTakenAtOnce(p) == TRUE

\* future.result() returns once the future's task has finished
ResultReady(p) == fstatus[p] = "done"

\* mutant of InsertedRow: the numbering of the rows goes on from the pass before
InsertedRowNumberedOn(pass, sg, n) == <<pass, sg, n + pass - 1>>

\* the row of the n-th rdfGroupInfo entry of storage group sg, lines 91-93
InsertedRow(pass, sg, n) == <<pass, sg, n>>

\* the open transaction after a cursor.execute of line 58 or after the
\* except clause of lines 97-98: the row inserted joins it, and nothing
\* leaves it when the insert raised
Pending(pending, rows, failed) == pending \cup rows

\* line 89: 'rdfGroupInfo' in result
HasRdfGroupInfo(result) == result.type = "dict" /\ result.info >= 0

\* the result is one of the error mappings of get_rdf_status, lines 67-69
IsError(result) == result.type = "dict" /\ result.text # ""

\* mutant of Processed: the target is counted whether its inserts raised or not
ProcessedAlways(count, failed) == count + 1

\* line 94 runs when the loop of lines 90-93 ended without an exception
Processed(count, failed) == IF failed THEN count ELSE count + 1

\* process_storage_groups lines 87-89 and 94-98: the next iteration of
\* `for future in futures` takes the result of its future.  A result with
\* rdfGroupInfo starts the loop of line 90, which ends at once on an empty
\* list and raises at once on a value that cannot be iterated.
SqlConsume ==
  /\ prog = "rdf_sql" /\ pc = "consume"
  /\ fi <= Len(storage_groups)
  /\ ResultReady(fi)
  /\ LET result == fresult[fi]
         sg_name == storage_groups[fi]
     IN  IF HasRdfGroupInfo(result) /\ result.info > 0
           THEN /\ pc' = "insert" /\ ri' = 1 /\ fi' = fi
                /\ UNCHANGED <<processed, log>>
         ELSE IF HasRdfGroupInfo(result)
           THEN /\ processed' = Processed(processed, result.malformed)
                /\ log' = IF result.malformed
                            THEN Append(log, Line("Exception processing", sg_name, "shape", 0))
                            ELSE log
                /\ fi' = fi + 1
                /\ UNCHANGED <<pc, ri>>
         ELSE IF result.type = "dict"
           THEN \* line 96: result.get('error', 'Unknown error')
                /\ log' = Append(log, Line("Error processing", sg_name,
                                           IF IsError(result) THEN result.text
                                                              ELSE "Unknown error", 0))
                /\ fi' = fi + 1
                /\ UNCHANGED <<pc, ri, processed>>
         ELSE \* a list has no rdfGroupInfo member and no get: line 98
              /\ log' = Append(log, Line("Exception processing", sg_name, "attribute", 0))
              /\ fi' = fi + 1
              /\ UNCHANGED <<pc, ri, processed>>
  /\ UNCHANGED <<gets, failed_prev, out_of_order>>
  /\ UNCHANGED <<prog, inventory_gets, poolVars, rdfVars, passes, db_open, db_pending,
                 db_committed, db_users, commits, processing_time, sleep_time, inv_resp,
                 clientVars>>

\* process_storage_groups lines 90-98 and create_rdf_status_record: one
\* cursor.execute, for the ri-th entry of rdfGroupInfo, returns or raises.
\* After the last mapping of the list the loop ends, or raises at what
\* follows when the list is malformed; line 94 counts the target, lines
\* 97-98 print the exception.
SqlInsert ==
  /\ prog = "rdf_sql" /\ pc = "insert"
  /\ db_users' = db_users \cup {"main"}
  /\ LET result == fresult[fi]
         sg_name == storage_groups[fi]
     IN  \E ok \in BOOLEAN :
           IF ~ok
             THEN /\ db_pending' = Pending(db_pending, {}, TRUE)
                  /\ log' = Append(log, Line("Exception processing", sg_name, "insert", 0))
                  /\ processed' = Processed(processed, TRUE)
                  /\ pc' = "consume" /\ fi' = fi + 1 /\ ri' = 0
           ELSE IF ri < result.info
             THEN /\ db_pending' = Pending(db_pending, {InsertedRow(passes, sg_name, ri)}, FALSE)
                  /\ ri' = ri + 1
                  /\ UNCHANGED <<pc, fi, processed, log>>
           ELSE /\ db_pending' = Pending(db_pending, {InsertedRow(passes, sg_name, ri)}, FALSE)
                /\ processed' = Processed(processed, result.malformed)
                /\ log' = IF result.malformed
                            THEN Append(log, Line("Exception processing", sg_name, "shape", 0))
                            ELSE log
                /\ pc' = "consume" /\ fi' = fi + 1 /\ ri' = 0
  /\ UNCHANGED <<gets, failed_prev, out_of_order>>
  /\ UNCHANGED <<prog, inventory_gets, poolVars, rdfVars, passes, db_open,
                 db_committed, commits, processing_time, sleep_time, inv_resp, clientVars>>

\* mutant of LoopDone: the commit is inside the loop, after every target
LoopDoneAfterOne(pos, n) == pos > Min(1, n)

\* lines 87 and 100: the commit follows the loop over all futures
LoopDone(pos, n) == pos > n

\* process_storage_groups lines 99-103: the pool is shut down, then
\* conn.commit() returns or raises.
SqlCommit ==
  /\ prog = "rdf_sql" /\ pc = "consume"
  /\ LoopDone(fi, Len(storage_groups))
  /\ AllCollected(DOMAIN fstatus)
  /\ db_users' = db_users \cup {"main"}
  /\ \E ok \in BOOLEAN :
       IF ok
         THEN /\ db_committed' = db_pending
              /\ db_pending' = {}
              /\ db_open' = FALSE
              /\ commits' = Append(commits, passes)
              /\ pc' = "timing"
         ELSE /\ pc' = "crashed"
              /\ db_pending' = {}
              /\ db_open' = FALSE
              /\ UNCHANGED <<db_committed, commits>>
  \* the function returns: its futures and their results are gone
  /\ fi' = 0
  /\ ri' = 0
  /\ fstatus' = [p \in DOMAIN fstatus |-> "idle"]
  /\ fresult' = [p \in DOMAIN fresult |-> NoResult]
  /\ fresp' = [p \in DOMAIN fresp |-> NoResponse]
  /\ UNCHANGED <<prog, inventory_gets, MAX_WORKERS, storage_groups, rdfVars, passes,
                 processed, processing_time, sleep_time, inv_resp, clientVars>>
  /\ failed_prev' = LET bad == {q \in DOMAIN fresult : IsError(fresult[q])}
                    IN  {storage_groups[p] : p \in {q \in bad : \A k \in bad : q <= k}}
  /\ UNCHANGED <<log, gets, out_of_order>>

\* The durations a pass can be measured to have taken
ProcessingTimes ==
  {0, COLLECTION_INTERVAL - 1, COLLECTION_INTERVAL, COLLECTION_INTERVAL + 1}

\* mutant of SleepTime: the interval less the elapsed time, without max(0, .)
SleepTimeUnclamped(interval, elapsed) == interval - elapsed

\* main line 128
SleepTime(interval, elapsed) == Max(0, interval - elapsed)

\* main lines 124-129
SqlMeasure ==
  /\ prog = "rdf_sql" /\ pc = "timing"
  /\ \E elapsed \in ProcessingTimes :
       /\ processing_time' = elapsed
       /\ sleep_time' = SleepTime(COLLECTION_INTERVAL, elapsed)
  /\ pc' = "sleep"
  /\ UNCHANGED <<prog, inventory_gets, poolVars, rdfVars, passes, processed, fi, ri, db_open,
                 db_pending, db_committed, db_users, commits, inv_resp, clientVars>>
  /\ log' = log \o <<Line("Completed collection", "", "", processed),
                     Line("Next collection in", "", "", sleep_time')>>
  /\ UNCHANGED <<gets, failed_prev, out_of_order>>

\* main line 130: time.sleep raises ValueError on a negative argument
SqlSleep ==
  /\ prog = "rdf_sql" /\ pc = "sleep"
  /\ pc' = IF sleep_time < 0 THEN "crashed" ELSE "loop"
  /\ UNCHANGED <<prog, inventory_gets, poolVars, rdfVars, sqlVars, inv_resp, clientVars>>
  /\ UNCHANGED obsVars

NextSql ==
  \/ SqlGetInventory
  \/ SqlStartPass
  \/ SqlConnect
  \/ \E p \in DOMAIN fstatus : SqlWorkerStart(p)
  \/ \E p \in DOMAIN fstatus : SqlWorkerFinish(p)
  \/ SqlConsume
  \/ SqlInsert
  \/ SqlCommit
  \/ SqlMeasure
  \/ SqlSleep

\* --------------------------------------------------------- uniVmax_rdf.py
\* The statuses a GET of the client can be answered with
ClientStatuses == {200, 300, 404, 500}

\* A page key as it travels in params['pageKey'] and in nextPageKey:
\* present says whether the key is there at all, key = 0 is the empty string
NoPageKey == [present |-> FALSE, key |-> 0]
PageKey(k) == [present |-> TRUE, key |-> k]

RECURSIVE SumTo(_, _)
SumTo(sizes, k) == IF k = 0 THEN 0 ELSE sizes[k] + SumTo(sizes, k - 1)

\* The paginated resource on the server: page k holds the next sizes[k]
\* items of 1, 2, 3, ...; every page but the last names page k + 1 as its
\* nextPageKey; the last page has no nextPageKey or an empty one.
MakePages(sizes, last) ==
  [k \in DOMAIN sizes |->
     [result |-> [j \in 1..sizes[k] |-> SumTo(sizes, k - 1) + j],
      nextPageKey |-> IF k < Len(sizes) THEN PageKey(k + 1) ELSE last]]

ServerPages ==
  UNION {{MakePages(sizes, last) : sizes \in [1..n -> 0..MaxPageItems],
                                  last \in {NoPageKey, PageKey(0)}} :
         n \in 1..MaxPages}

\* the page the server sends for a request with params['pageKey'] = key;
\* a request without a key, or with one that names no page, gets the first
ServedPage(key) ==
  IF key.present /\ key.key \in DOMAIN pages THEN pages[key.key] ELSE pages[1]

\* What a GET can be answered with.  exc: session.get raised.  body is
\* "page" (a mapping with a resultList), "plain" (any other JSON) or
\* "invalid" (not JSON).
ClientAnswers ==
  {[exc |-> TRUE, status |-> 0, body |-> "invalid"]}
  \cup [exc : {FALSE}, status : ClientStatuses, body : {"page", "plain", "invalid"}]

NoValue == [type |-> "none", value |-> <<>>]
NoException == [type |-> "none", status |-> 0]

\* response.raise_for_status(): raises HTTPError for 4xx and 5xx
RaisesForStatus(status) == 400 <= status /\ status < 600

\* mutant of HasNextPage: 'nextPageKey' in data['resultList'], empty or not
HasNextPageKey(page) == page.nextPageKey.present

\* line 37: the resultList has a nextPageKey and it is truthy
HasNextPage(page) == page.nextPageKey.present /\ page.nextPageKey.key # 0

\* mutant of Extend: results = data['resultList']['result']
ExtendOverwrites(res, items) == items

\* line 36: results.extend(data['resultList']['result'])
Extend(res, items) == res \o items

\* a method of the client is called: get_all_arrays and the like go through
\* _get_paginated (lines 24-27), get_array_capacity and the like send one GET
ClientCall ==
  /\ prog = "uniVmax_rdf" /\ pc = "main"
  /\ \E m \in {"_get_paginated", "get_array_capacity"} : method' = m
  /\ params' = NoPageKey
  /\ page_results' = <<>>
  /\ pc' = "get"
  /\ UNCHANGED <<prog, inventory_gets, inv_resp, poolVars, rdfVars, sqlVars, pages,
                 requests, answers, retval, raised>>
  /\ UNCHANGED obsVars

\* _get_paginated lines 30-43: one iteration of the while loop
ClientGetPage ==
  /\ prog = "uniVmax_rdf" /\ pc = "get" /\ method = "_get_paginated"
  /\ requests' = Append(requests, params)
  /\ \E a \in ClientAnswers :
       /\ answers' = Append(answers, a)
       /\ IF a.exc
            THEN /\ raised' = [type |-> "ConnectionError", status |-> 0]
                 /\ pc' = "raised"
                 /\ UNCHANGED <<params, page_results, retval>>
          ELSE IF RaisesForStatus(a.status)
            THEN /\ raised' = [type |-> "HTTPError", status |-> a.status]
                 /\ pc' = "raised"
                 /\ UNCHANGED <<params, page_results, retval>>
          ELSE IF a.body = "invalid"
            THEN /\ raised' = [type |-> "JSONDecodeError", status |-> 0]
                 /\ pc' = "raised"
                 /\ UNCHANGED <<params, page_results, retval>>
          ELSE IF a.body = "page"
            THEN LET page == ServedPage(params)
                 IN  /\ page_results' = Extend(page_results, page.result)
                     /\ IF HasNextPage(page)
                          THEN /\ params' = page.nextPageKey
                               /\ pc' = "get"
                               /\ UNCHANGED retval
                          ELSE /\ retval' = [type |-> "results", value |-> page_results']
                               /\ pc' = "returned"
                               /\ UNCHANGED params
                     /\ UNCHANGED raised
          ELSE \* non-paginated response: return data
               /\ retval' = [type |-> "data", value |-> <<>>]
               /\ pc' = "returned"
               /\ UNCHANGED <<params, page_results, raised>>
  /\ UNCHANGED <<prog, inventory_gets, inv_resp, poolVars, rdfVars, sqlVars, pages, method>>
  /\ UNCHANGED obsVars

\* get_array_capacity lines 49-52 (get_array_health_status and
\* get_replication_group_details are the same three lines)
ClientGet ==
  /\ prog = "uniVmax_rdf" /\ pc = "get" /\ method = "get_array_capacity"
  /\ requests' = Append(requests, NoPageKey)
  /\ \E a \in ClientAnswers :
       /\ answers' = Append(answers, a)
       /\ IF a.exc
            THEN /\ raised' = [type |-> "ConnectionError", status |-> 0]
                 /\ pc' = "raised"
                 /\ UNCHANGED retval
          ELSE IF RaisesForStatus(a.status)
            THEN /\ raised' = [type |-> "HTTPError", status |-> a.status]
                 /\ pc' = "raised"
                 /\ UNCHANGED retval
          ELSE IF a.body = "invalid"
            THEN /\ raised' = [type |-> "JSONDecodeError", status |-> 0]
                 /\ pc' = "raised"
                 /\ UNCHANGED retval
          ELSE /\ retval' = [type |-> "data", value |-> <<>>]
               /\ pc' = "returned"
               /\ UNCHANGED raised
  /\ UNCHANGED <<prog, inventory_gets, inv_resp, poolVars, rdfVars, sqlVars, pages, method,
                 params, page_results>>
  /\ UNCHANGED obsVars

NextClient ==
  \/ ClientCall
  \/ ClientGetPage
  \/ ClientGet

\* ------------------------------------------------------------------ specs
InitCommon ==
  /\ pc = "main"
  /\ MAX_WORKERS \in 1..MaxWorkers
  /\ storage_groups = <<>>
  /\ fstatus = <<>>
  /\ fresult = <<>>
  /\ fresp = <<>>
  /\ batches = <<>>
  /\ i = 0
  /\ results = <<>>
  /\ json_files = <<>>
  /\ csv_files = <<>>
  /\ sleeps = <<>>
  /\ inventory_gets = 0
  /\ passes = 0
  /\ processed = 0
  /\ fi = 0
  /\ ri = 0
  /\ db_open = FALSE
  /\ db_pending = {}
  /\ db_committed = {}
  /\ db_users = {}
  /\ commits = <<>>
  /\ processing_time = 0
  /\ sleep_time = 0
  /\ inv_resp = NoInventoryResponse
  /\ method = "none"
  /\ params = NoPageKey
  /\ page_results = <<>>
  /\ requests = <<>>
  /\ answers = <<>>
  /\ retval = NoValue
  /\ raised = NoException
  /\ log = <<>>
  /\ gets = <<>>
  /\ failed_prev = {}
  /\ out_of_order = FALSE

InitRdf ==
  /\ prog = "rdf"
  /\ pages = <<>>
  /\ BATCH_SIZE \in 1..MaxBatchSize
  /\ InitCommon

SpecRdf == InitRdf /\ [][NextRdf]_vars

\* rdf_sql.py sets BATCH_SIZE and never reads it
InitSql ==
  /\ prog = "rdf_sql"
  /\ pages = <<>>
  /\ BATCH_SIZE = MaxBatchSize
  /\ InitCommon

SpecSql == InitSql /\ [][NextSql]_vars

\* VMAXClient does not use the pool: MAX_WORKERS and BATCH_SIZE are not its
InitClient ==
  /\ prog = "uniVmax_rdf"
  /\ pages \in ServerPages
  /\ BATCH_SIZE = MaxBatchSize
  /\ InitCommon
  /\ MAX_WORKERS = MaxWorkers

SpecClient == InitClient /\ [][NextClient]_vars

Init == InitRdf \/ InitSql \/ InitClient

Next == NextRdf \/ NextSql \/ NextClient

Spec == Init /\ [][Next]_vars

\* ----------------------------------------------------------------- claims
Ceil(n, d) == (n + d - 1) \div d

RECURSIVE Flatten(_)
Flatten(ss) == IF ss = <<>> THEN <<>> ELSE Head(ss) \o Flatten(Tail(ss))

Range(f) == {f[x] : x \in DOMAIN f}

\* a fetch failed: transport error or a status other than 200
FetchFailed(r) == r.exc \/ r.status # 200

\* C1: the batch split of rdf.py main yields ceil(N/B) batches, batch b is
\* the contiguous slice of the inventory from (b-1)*B+1 to min(b*B, N), and
\* the batches concatenated in order are the inventory (no batch for N = 0).
C1_BatchSplit ==
  (prog = "rdf" /\ pc \notin {"main", "crashed"}) =>
    LET N == Len(storage_groups)
        B == BATCH_SIZE
    IN  /\ Len(batches) = Ceil(N, B)
        /\ \A b \in 1..Len(batches) :
             batches[b] = SubSeq(storage_groups, (b - 1) * B + 1, Min(b * B, N))
        /\ Flatten(batches) = storage_groups

\* an inventory of three targets is split into a full and a partial batch
C1_Witness ==
  /\ prog = "rdf" /\ pc = "done"
  /\ Len(storage_groups) = 3 /\ BATCH_SIZE = 2
  /\ Len(batches) = 2 /\ Len(batches[2]) = 1

\* C3: whatever fetches of a batch fail, process_batch goes on to write the
\* batch: the JSON output of every processed batch has one entry per target
\* of the batch, keyed by the target; the entry of a failed fetch is the
\* error string of its failure, the entry of any other fetch carries its
\* response; and no failed fetch aborts the run: after the inventory the run
\* ends early only in the CSV loop, after the JSON file of the batch is
\* written, at a fetched mapping whose rdfGroupInfo is malformed.
C3_FailureIsolation ==
  prog = "rdf" =>
    /\ \A b \in 1..Len(json_files) :
         /\ Len(json_files[b]) = Len(batches[b])
         /\ \A j \in 1..Len(batches[b]) :
              LET e == json_files[b][j]
                  r == fresp[BatchPos(b, j)]
              IN  /\ e.sg = batches[b][j]
                  /\ r.exc => e.type = "str" /\ e.text = "Exception: timeout"
                  /\ (~r.exc /\ r.status # 200) =>
                       e.type = "str" /\ e.text = "Error: " \o ToString(r.status)
                  /\ (~FetchFailed(r) /\ r.body # "invalid") =>
                       e.type = r.body /\ e.info = r.info
    /\ pc = "crashed" =>
         \/ storage_groups = <<>> /\ json_files = <<>>
         \/ /\ Len(json_files) = i
            /\ \E p \in BatchPositions(i) : ~FetchFailed(fresp[p]) /\ fresp[p].malformed
    /\ pc \in {"write_csv", "delay"} => Len(json_files) = i
    /\ pc = "done" => Len(json_files) = Len(batches)

\* a batch of at least two targets was written in which exactly one fetch
\* failed, with a transport error, and another returned its RDF groups
C3_Witness ==
  /\ prog = "rdf"
  /\ \E b \in 1..Len(json_files) :
       /\ Len(batches[b]) >= 2
       /\ Cardinality({j \in 1..Len(batches[b]) : FetchFailed(fresp[BatchPos(b, j)])}) = 1
       /\ \E j \in 1..Len(batches[b]) : fresp[BatchPos(b, j)].exc
       /\ \E j \in 1..Len(batches[b]) : json_files[b][j].info >= 1

\* C4: batches run one at a time and in order: a fetch is queued or in
\* flight only for the current batch; once a fetch of batch b was submitted,
\* every fetch of every earlier batch has completed, its JSON and CSV files
\* are written and the delay after it has run; the delays run once each
\* after batches 1, 2, ... and never after the last batch.
C4_BatchesInOrder ==
  prog = "rdf" =>
    /\ \A p \in DOMAIN fstatus :
         fstatus[p] \in {"queued", "running"} => pc = "fetching" /\ p \in BatchPositions(i)
    /\ \A b \in 1..Len(batches) :
         (\E p \in BatchPositions(b) : fstatus[p] # "idle") =>
           \A a \in 1..(b - 1) :
             /\ \A p \in BatchPositions(a) : fstatus[p] = "done"
             /\ Len(json_files) >= a /\ Len(csv_files) >= a
             /\ a \in Range(sleeps)
    /\ sleeps = [k \in 1..Len(sleeps) |-> k]
    /\ Len(sleeps) <= Max(Len(batches) - 1, 0)
    /\ pc = "done" =>
         /\ Len(sleeps) = Max(Len(batches) - 1, 0)
         /\ Len(csv_files) = Len(batches)

\* three batches were processed with a delay after the first and the second
C4_Witness ==
  /\ prog = "rdf" /\ pc = "done"
  /\ Len(batches) = 3 /\ sleeps = <<1, 2>> /\ Len(csv_files) = 3

\* C5: in rdf.py and in rdf_sql.py alike, at most MAX_WORKERS fetches are in
\* flight at any time
C5_BoundedWorkers ==
  prog \in {"rdf", "rdf_sql"} =>
    Cardinality({p \in DOMAIN fstatus : fstatus[p] = "running"}) <= MAX_WORKERS

\* the pool is full, with two fetches in flight, and a third target waits
C5_Witness ==
  /\ prog = "rdf" /\ MAX_WORKERS = 2
  /\ Cardinality({p \in DOMAIN fstatus : fstatus[p] = "running"}) = 2
  /\ \E p \in DOMAIN fstatus : fstatus[p] = "queued"

\* C6 as stated: no row is inserted while a fetch of the pass is still
\* queued or in flight
C6_WritesAfterFetchPhase ==
  (prog = "rdf_sql" /\ db_pending # {}) =>
    \A p \in DOMAIN fstatus : fstatus[p] \notin {"queued", "running"}

\* C6 as amended: only the main thread uses the database connection; the
\* main thread handles a target, and so inserts its rows, only after that
\* target's own fetch has completed; and once every target is handled, which
\* is when the commit runs, every fetch of the pass has completed.
C6_WritesFollowOwnFetch ==
  prog = "rdf_sql" =>
    /\ db_users \subseteq {"main"}
    /\ pc = "consume" => \A p \in 1..(fi - 1) : fstatus[p] = "done"
    /\ pc = "insert" => \A p \in 1..fi : fstatus[p] = "done"
    /\ \A row \in db_pending :
         /\ row[1] = passes
         /\ \E p \in DOMAIN fstatus : storage_groups[p] = row[2] /\ fstatus[p] = "done"
         /\ \E p \in 1..fi : storage_groups[p] = row[2] /\ (p = fi => pc = "insert")
    /\ db_pending # {} => pc \in {"consume", "insert"}

\* a row of the first target is inserted while the second target's fetch
\* has not finished
C6_Witness ==
  /\ prog = "rdf_sql" /\ pc = "insert"
  /\ db_pending # {}
  /\ \E p \in DOMAIN fstatus : fstatus[p] \in {"queued", "running"}

\* C7: when the loop is about to sleep, the sleep is the interval less the
\* measured processing time, 0 when the pass took longer than the interval,
\* never negative; and the step after the sleep is back at the head of the
\* loop, where the next pass starts.
C7_SleepCompensation ==
  /\ [](prog = "rdf_sql" /\ pc = "sleep" =>
          /\ sleep_time >= 0
          /\ processing_time > COLLECTION_INTERVAL => sleep_time = 0
          /\ processing_time <= COLLECTION_INTERVAL =>
               sleep_time = COLLECTION_INTERVAL - processing_time)
  /\ [][prog = "rdf_sql" /\ pc = "sleep" => pc' = "loop" /\ passes' = passes]_vars
  /\ [][prog = "rdf_sql" /\ pc = "loop" => pc' = "connect" /\ passes' = passes + 1]_vars

\* the second pass overran the interval and sleeps for 0 seconds
C7_Witness ==
  /\ prog = "rdf_sql" /\ pc = "sleep" /\ passes = 2
  /\ processing_time > COLLECTION_INTERVAL /\ sleep_time = 0

\* C8 as stated: once the collector loop is entered, no failure ends the run
C8_NoFailureEndsTheRun ==
  (prog = "rdf_sql" /\ passes >= 1) => pc # "crashed"

\* the inventory request failed: it raised, or its status is not 200
InventoryRequestFailed == inv_resp.exc \/ (inv_resp.status # 0 /\ inv_resp.status # 200)

\* C9: the inventory is requested once, at startup; when that request fails
\* the program has ended with no pass started, no target submitted or
\* fetched, no file written and the database never touched.
C9_InventoryOnce ==
  prog \in {"rdf", "rdf_sql"} =>
    /\ inventory_gets = (IF pc = "main" THEN 0 ELSE 1)
    /\ InventoryRequestFailed =>
         /\ pc \in {"crashed", "exited"}
         /\ passes = 0
         /\ storage_groups = <<>>
         /\ \A p \in DOMAIN fstatus : fstatus[p] = "idle"
         /\ json_files = <<>> /\ csv_files = <<>>
         /\ db_users = {} /\ db_pending = {} /\ db_committed = {}

\* the server sent a paginated page with status 200 to every request
AllPagesServed ==
  \A k \in 1..Len(answers) :
    ~answers[k].exc /\ answers[k].status = 200 /\ answers[k].body = "page"

\* C2: when every request of a _get_paginated call was answered with the
\* page it asked for, the call returns the items of all pages of the
\* resource, in page order, each once (the server's items are 1, 2, 3, ...).
C2_Pagination ==
  (prog = "uniVmax_rdf" /\ method = "_get_paginated" /\ pc = "returned"
     /\ AllPagesServed) =>
    /\ retval.type = "results"
    /\ retval.value = Flatten([k \in 1..Len(pages) |-> pages[k].result])
    /\ retval.value = [n \in 1..Len(retval.value) |-> n]
    /\ Len(requests) = Len(pages)

\* three non-empty pages were fetched and returned
C2_Witness ==
  /\ prog = "uniVmax_rdf" /\ method = "_get_paginated" /\ pc = "returned"
  /\ AllPagesServed
  /\ Len(pages) = 3 /\ \A k \in 1..3 : Len(pages[k].result) >= 1
  /\ Len(retval.value) >= 3

\* C10 as stated: an answer with a status outside 200..299 makes the call
\* raise a failure that carries that status, and no request is sent twice
C10_NonSuccessRaises ==
  prog = "uniVmax_rdf" =>
    /\ \A k \in 1..Len(answers) :
         (~answers[k].exc /\ answers[k].status \notin 200..299) =>
           /\ k = Len(answers)
           /\ pc = "raised"
           /\ raised.status = answers[k].status
    /\ \A a, b \in 1..Len(requests) : a # b => requests[a] # requests[b]

\* the main thread of rdf_sql.py is in the loop over the futures: between
\* two futures, or between two inserts of the future at position fi
InLoop == prog = "rdf_sql" /\ pc \in {"consume", "insert"}

\* the rows of the open transaction that belong to the target at position p
PendingOf(p) == {row \in db_pending : row[2] = storage_groups[p]}

\* the printed lines that name storage group sg
LinesOf(sg) == {n \in DOMAIN log : log[n].sg = sg}

\* C11: rdf_sql.py does not retry inside a pass: every pass submits every
\* target of the inventory, the targets whose fetch failed in the pass before
\* included; a target is fetched at most once in the pass and exactly once
\* by the time its result is consumed; a target whose fetch failed is
\* reported with one printed error line in that pass and gets no record.
C11_NoRetryWithinPass ==
  InLoop =>
    /\ DOMAIN gets = 1..Len(storage_groups)
    /\ pc = "insert" => gets[fi] = 1 /\ ~FetchFailed(fresp[fi])
    /\ failed_prev \subseteq Range(storage_groups)
    /\ \A p \in DOMAIN gets :
         /\ fstatus[p] \in {"queued", "running", "done"}
         /\ gets[p] = (IF fstatus[p] = "done" THEN 1 ELSE 0)
         /\ p < fi => gets[p] = 1
         /\ (p < fi /\ FetchFailed(fresp[p])) =>
              /\ PendingOf(p) = {}
              /\ Cardinality(LinesOf(storage_groups[p])) = 1
              /\ \A n \in LinesOf(storage_groups[p]) : log[n].msg = "Error processing"

\* in the second pass a target whose fetch failed in the first pass has been
\* fetched again, once, and this time its answer was good and is consumed
C11_Witness ==
  /\ prog = "rdf_sql" /\ pc = "consume" /\ passes = 2
  /\ \E p \in DOMAIN gets :
       /\ storage_groups[p] \in failed_prev
       /\ p < fi /\ gets[p] = 1
       /\ ~FetchFailed(fresp[p])
       /\ PendingOf(p) # {}

\* the number of RDF pairings in the answer r: those of the rdfGroupInfo
\* list of a successfully fetched mapping, none for a failed fetch
PairingsOf(r) ==
  IF ~FetchFailed(r) /\ r.body = "dict" /\ r.info > 0 THEN r.info ELSE 0

RECURSIVE TotalPairings(_)
TotalPairings(p) == IF p = 0 THEN 0 ELSE PairingsOf(fresp[p]) + TotalPairings(p - 1)

\* the CSV rows the targets of batch b are due, in input order
RowsDue(b) ==
  Flatten([j \in 1..Len(batches[b]) |->
             [k \in 1..PairingsOf(fresp[BatchPos(b, j)]) |-> <<batches[b][j], k>>]])

\* C12: the CSV file of a batch holds one data row per RDF pairing of each
\* successfully fetched target of the batch, in input order, and none for a
\* failed target; at the end of the run the rows of all files number the
\* pairings of all successful targets.  With [SG1, SG2, SG3], batch size 2
\* and one pairing each: 2 rows, then 1 row, 3 in total.
C12_CsvRowPerPairing ==
  prog = "rdf" =>
    /\ \A b \in 1..Len(csv_files) : csv_files[b] = RowsDue(b)
    /\ pc = "done" =>
         /\ Len(csv_files) = Len(batches)
         /\ Len(Flatten(csv_files)) = TotalPairings(Len(storage_groups))
    /\ ( /\ pc = "done" /\ storage_groups = Inventory(3) /\ BATCH_SIZE = 2
         /\ \A p \in 1..3 : PairingsOf(fresp[p]) = 1 ) =>
         /\ Len(csv_files[1]) = 2
         /\ Len(csv_files[2]) = 1
         /\ Len(Flatten(csv_files)) = 3

\* the records the answer r to the poll of storage group sg yields, stamped
\* with the pass: one per pairing of a good answer, none otherwise
RecordsOf(pass, sg, r) == {<<pass, sg, k>> : k \in 1..PairingsOf(r)}

\* C13: the records of a poll depend only on the target and on the answer of
\* the backend, not on earlier passes, other targets or scheduling: in every
\* pass the rows inserted for a consumed target are rows of
\* RecordsOf(pass, target, answer), and all of them unless an insert raised;
\* so two polls of a target with the same answer give the same records but
\* for the stamp of the pass.
C13_RecordsDependOnAnswerOnly ==
  InLoop =>
    /\ \A row \in db_pending :
         /\ row[1] = passes
         /\ \E p \in 1..fi : row[2] = storage_groups[p] /\ (p = fi => pc = "insert")
    /\ pc = "insert" =>
         /\ ri \in 1..PairingsOf(fresp[fi])
         /\ PendingOf(fi) = {row \in RecordsOf(passes, storage_groups[fi], fresp[fi]) :
                               row[3] < ri}
    /\ \A p \in 1..(fi - 1) :
         /\ PendingOf(p) \subseteq RecordsOf(passes, storage_groups[p], fresp[p])
         /\ (\A n \in LinesOf(storage_groups[p]) : log[n].msg # "Exception processing")
              => PendingOf(p) = RecordsOf(passes, storage_groups[p], fresp[p])

\* second pass, pool of two workers, tasks finished out of order: a target
\* that failed in the pass before and follows a failed target has its two
\* records
C13_Witness ==
  /\ prog = "rdf_sql" /\ pc = "consume" /\ passes = 2 /\ out_of_order
  /\ fi = 3
  /\ storage_groups[2] \in failed_prev
  /\ FetchFailed(fresp[1])
  /\ PendingOf(2) = {<<2, storage_groups[2], 1>>, <<2, storage_groups[2], 2>>}

\* C14 as stated: a failed insert prevents no other record of the run, so of
\* the records a consumed target is due at most the one whose insert failed
\* is missing from the transaction; and every insert of the pass that
\* succeeded is made durable by the commit at the end of the pass, so the
\* step that ends the loop of the pass leaves the whole transaction durable.
C14_FailedInsertPreventsNoRecord ==
  /\ [](InLoop =>
          \A p \in 1..(fi - 1) :
            Cardinality(PendingOf(p)) >= PairingsOf(fresp[p]) - 1)
  /\ [][(InLoop /\ pc' \notin {"consume", "insert"}) =>
          db_committed' = db_pending]_vars

\* C15: the relational sink commits once per pass, after the loop has passed
\* every target and every fetch has finished; rows enter the durable set only
\* by that commit, all rows of the transaction together; until then none of
\* the pass is durable, and a pass that ends before or in its commit loses
\* all its writes.
C15_CommitOncePerPass ==
  [][prog = "rdf_sql" =>
       /\ pc' \in {"consume", "insert"} =>
            /\ db_committed' = {}
            /\ Len(commits') = passes' - 1
       /\ commits' # commits =>
            /\ pc = "consume" /\ pc' = "timing"
            /\ fi > Len(storage_groups)
            /\ \A p \in DOMAIN fstatus : fstatus[p] = "done"
            /\ commits' = Append(commits, passes)
            /\ \A n \in DOMAIN commits : commits[n] < passes
            /\ db_committed' = db_pending
       /\ db_committed' # db_committed =>
            \/ commits' # commits
            \/ pc = "connect" /\ db_committed' = {}
       /\ (pc = "consume" /\ pc' = "crashed") =>
            /\ db_committed' = {} /\ db_pending' = {}
            /\ commits' = commits]_vars

\* the second pass has committed rows of both targets together; the commits
\* are those of pass 1 and pass 2
C15_Witness ==
  /\ prog = "rdf_sql" /\ pc = "timing" /\ passes = 2
  /\ commits = <<1, 2>>
  /\ \E r1, r2 \in db_committed : r1[2] = "SG1" /\ r2[2] = "SG2"
  /\ \A r \in db_committed : r[1] = 2

\* the answer reached the parser: it came, and with no 4xx or 5xx status
Parsed(a) == ~a.exc /\ a.status \notin 400..599

\* the answer is a parsed mapping with a result list
IsPage(a) == Parsed(a) /\ a.body = "page"

\* the answer is parsed JSON of another shape
IsPlain(a) == Parsed(a) /\ a.body = "plain"

\* the page carries a next-page key that is not empty
CarriesKey(page) == page.nextPageKey.present /\ page.nextPageKey.key # 0

\* C16: _get_paginated sends its first request without a page key and every
\* further request with the non-empty next-page key of the page just
\* received; no page is requested twice; the call returns the accumulated
\* list at the first page without a key or with an empty one, and nothing is
\* requested after that; a first answer that is no mapping with a result
\* list is returned as parsed after that single request.
C16_PaginationStops ==
  (prog = "uniVmax_rdf" /\ method = "_get_paginated") =>
    /\ Len(answers) = Len(requests)
    /\ Len(requests) <= Len(pages)
    /\ \A k \in DOMAIN requests :
         IF k = 1
           THEN requests[k] = NoPageKey
           ELSE /\ IsPage(answers[k - 1])
                /\ CarriesKey(ServedPage(requests[k - 1]))
                /\ requests[k] = ServedPage(requests[k - 1]).nextPageKey
    /\ \A j, k \in DOMAIN requests : j # k => requests[j] # requests[k]
    /\ requests # <<>> =>
         LET last == Len(requests)
         IN  /\ (IsPage(answers[last]) /\ ~CarriesKey(ServedPage(requests[last]))) =>
                  /\ pc = "returned"
                  /\ retval.type = "results"
             /\ pc = "get" =>
                  /\ IsPage(answers[last])
                  /\ CarriesKey(ServedPage(requests[last]))
    /\ (requests # <<>> /\ IsPlain(answers[1])) =>
         /\ Len(requests) = 1
         /\ pc = "returned"
         /\ retval = [type |-> "data", value |-> <<>>]

\* three pages were requested one after the other and the call returned at
\* the third, whose next-page key is empty
C16_Witness ==
  /\ prog = "uniVmax_rdf" /\ method = "_get_paginated" /\ pc = "returned"
  /\ requests = <<NoPageKey, PageKey(2), PageKey(3)>>
  /\ ServedPage(PageKey(3)).nextPageKey = PageKey(0)
  /\ retval.type = "results"

\* the answer is a data-shape failure: a good answer whose mapping has no
\* rdfGroupInfo key
ShapeFailure(r) == ~FetchFailed(r) /\ r.body = "dict" /\ r.info = -1

\* the inventory positions whose result the program has dealt with: the
\* targets of the batches whose CSV file is written (rdf.py), the futures
\* the loop has passed (rdf_sql.py)
Handled ==
  IF prog = "rdf"
    THEN UNION {BatchPositions(b) : b \in 1..Len(csv_files)}
  ELSE IF InLoop
    THEN 1..(fi - 1)
  ELSE {}

\* the records written for the target at position p
WrittenFor(p) ==
  IF prog = "rdf"
    THEN {row \in Range(Flatten(csv_files)) : row[1] = storage_groups[p]}
    ELSE PendingOf(p)

\* C17: a data-shape failure produces no record for its target, is reported
\* with a printed line naming the target, and is not fatal: the program goes
\* on, and the records of the other targets of the pass or batch are written.
C17_ShapeFailureLogged ==
  \A p \in Handled :
    ShapeFailure(fresp[p]) =>
      /\ WrittenFor(p) = {}
      /\ LinesOf(storage_groups[p]) # {}
      /\ pc # "crashed"
      /\ \A q \in Handled \ {p} :
           Cardinality(WrittenFor(q)) = PairingsOf(fresp[q])
             \/ (prog = "rdf_sql" /\ LinesOf(storage_groups[q]) # {})

\* the inventory position of storage group sg
PositionOf(sg) == CHOOSE p \in DOMAIN storage_groups : storage_groups[p] = sg

\* the printed lines that name a storage group, in the order printed
TargetLines == SelectSeq(log, LAMBDA l : l.sg # "")

\* C18: whatever order the workers finish in, the result list of
\* process_batch has one entry per target of the batch, in input order, each
\* the result of that target's own fetch, and the count returned and printed
\* is the batch size; process_storage_groups takes the results in inventory
\* order: the rows in the transaction and the lines printed are those of the
\* futures before the loop position, the lines in inventory order.
C18_ResultsInInputOrder ==
  /\ (prog = "rdf" /\ pc \in {"write_json", "write_csv"}) =>
       /\ Len(results) = Len(batches[i])
       /\ \A j \in 1..Len(results) :
            /\ results[j].sg = batches[i][j]
            /\ results[j] = get_rdf_status(batches[i][j], fresp[BatchPos(i, j)])
  /\ prog = "rdf" =>
       \A n \in DOMAIN log :
         log[n].msg = "Completed batch" =>
           \E b \in DOMAIN batches : log[n].detail = ToString(b) /\ log[n].n = Len(batches[b])
  /\ InLoop =>
       /\ \A row \in db_pending :
            PositionOf(row[2]) < fi \/ (PositionOf(row[2]) = fi /\ pc = "insert")
       /\ \A n \in DOMAIN TargetLines :
            /\ PositionOf(TargetLines[n].sg) < fi
            /\ \A m \in 1..(n - 1) :
                 PositionOf(TargetLines[m].sg) < PositionOf(TargetLines[n].sg)

\* a batch of two or more whose tasks finished out of input order has been
\* collected
C18_Witness ==
  /\ prog = "rdf" /\ pc = "write_csv" /\ out_of_order
  /\ Len(results) >= 2
  /\ \A j \in 1..Len(results) : results[j].sg = batches[i][j]

\* C19: every item _get_paginated has accumulated from the pages it fetched
\* is part of the value it returns, whatever the shape of a later answer
C19_AccumulatedItemsReturned ==
  (prog = "uniVmax_rdf" /\ method = "_get_paginated" /\ pc = "returned") =>
    \A x \in Range(page_results) :
      /\ retval.type = "results"
      /\ x \in Range(retval.value)

\* the consumed targets whose answer had a well-formed rdfGroupInfo and
\* whose records are all in the transaction
FullyInserted ==
  {p \in 1..(fi - 1) :
     /\ ~FetchFailed(fresp[p]) /\ fresp[p].body = "dict" /\ fresp[p].info >= 0
     /\ ~fresp[p].malformed
     /\ PendingOf(p) = RecordsOf(passes, storage_groups[p], fresp[p])}

\* the storage groups an error or exception line was printed for
Reported == {log[n].sg : n \in {m \in DOMAIN log : log[m].sg # ""}}

\* C20: the counter of process_storage_groups is the number of targets of
\* the pass whose answer had rdfGroupInfo and whose every pairing was
\* inserted; a target whose fetch failed or whose insert raised is not
\* counted, each such target has a printed line instead, and the count
\* returned and printed never exceeds the number of targets.
C20_ProcessedCount ==
  prog = "rdf_sql" =>
    /\ processed <= Len(storage_groups)
    /\ InLoop =>
         /\ processed = Cardinality(FullyInserted)
         /\ \A p \in 1..(fi - 1) : p \notin FullyInserted <=> storage_groups[p] \in Reported
    /\ pc = "sleep" =>
         /\ processed = Len(storage_groups) - Cardinality(Reported)
         /\ \E n \in DOMAIN log :
              log[n] = Line("Completed collection", "", "", processed)

\* a pass over two targets returned 1: the fetch of one target failed or one
\* of its inserts raised, the other target was inserted in full
C20_Witness ==
  /\ prog = "rdf_sql" /\ pc = "sleep"
  /\ Len(storage_groups) = 2 /\ processed = 1
  /\ \E n \in DOMAIN log : log[n].msg = "Exception processing" /\ log[n].detail = "insert"
  /\ db_committed # {}

====
